---- MODULE Spec2Model ----
(***************************************************************************)
(* State-machine model of the NEAR NFT marketplace contract                *)
(* (src/src/lib.rs, src/src/internal.rs).                                  *)
(*                                                                         *)
(* Amounts are u128 in the contract.  They are modelled exactly, as        *)
(* little-endian numerals in radix 10^4, so that STORAGE_PER_SALE = 10^22  *)
(* and u128::MAX = 2^128 - 1 keep their values.                            *)
(***************************************************************************)
EXTENDS Integers, Sequences, FiniteSets, TLC

----------------------------------------------------------------------------
(* u128 arithmetic                                                         *)

\* radix of one limb
Base == 10000

\* an amount is the sequence of its limbs, least significant first, without
\* leading zero limbs: 0 is << >>, 150 is <<150>>, 10^22 is <<0,0,0,0,0,100>>
Limb(a, i) == IF i <= Len(a) THEN a[i] ELSE 0

RECURSIVE Trim(_)
Trim(s) ==
    IF s = << >> THEN s
    ELSE IF s[Len(s)] = 0 THEN Trim(SubSeq(s, 1, Len(s) - 1)) ELSE s

Zero == << >>

\* a small natural (below 10^8) as an amount
Amt(n) == Trim(<<n % Base, n \div Base>>)

\* u128::MAX = 340282366920938463463374607431768211455
U128_MAX == <<1455, 6821, 4317, 4607, 6337, 4634, 938, 6692, 2823, 340>>
\* 2^128, the modulus of wrapping u128 arithmetic
U128_MOD == <<1456, 6821, 4317, 4607, 6337, 4634, 938, 6692, 2823, 340>>

BigLess(a, b) ==
    IF Len(a) # Len(b) THEN Len(a) < Len(b)
    ELSE \E i \in 1..Len(a) :
            a[i] < b[i] /\ \A j \in (i+1)..Len(a) : a[j] = b[j]

BigLeq(a, b) == a = b \/ BigLess(a, b)

RECURSIVE AddFrom(_, _, _, _)
AddFrom(a, b, i, carry) ==
    IF i > Len(a) /\ i > Len(b)
    THEN (IF carry = 0 THEN << >> ELSE <<carry>>)
    ELSE LET t == Limb(a, i) + Limb(b, i) + carry
         IN  <<t % Base>> \o AddFrom(a, b, i + 1, t \div Base)

BigAdd(a, b) == AddFrom(a, b, 1, 0)

RECURSIVE SubFrom(_, _, _, _)
SubFrom(a, b, i, borrow) ==
    IF i > Len(a) THEN << >>
    ELSE LET t == a[i] - Limb(b, i) - borrow
         IN  <<(t + Base) % Base>> \o SubFrom(a, b, i + 1, IF t < 0 THEN 1 ELSE 0)

\* a - b for b <= a
BigSub(a, b) == Trim(SubFrom(a, b, 1, 0))

RECURSIVE MulFrom(_, _, _, _)
MulFrom(a, k, i, carry) ==
    IF i > Len(a) THEN <<carry % Base, carry \div Base>>
    ELSE LET t == a[i] * k + carry
         IN  <<t % Base>> \o MulFrom(a, k, i + 1, t \div Base)

\* a * k for a small factor k (k < 2^16, or a collection length)
BigMul(a, k) == Trim(MulFrom(a, k, 1, 0))

RECURSIVE DivFrom(_, _, _, _)
DivFrom(a, d, i, rem) ==
    IF i = 0 THEN << >>
    ELSE LET t == rem * Base + a[i]
         IN  DivFrom(a, d, i - 1, t % d) \o <<t \div d>>

\* floor(a / d) for a small divisor d (0 < d < 2^16)
BigDiv(a, d) == Trim(DivFrom(a, d, Len(a), 0))

\* u128::saturating_mul by a u16
saturating_mul(a, k) ==
    IF BigLess(U128_MAX, BigMul(a, k)) THEN U128_MAX ELSE BigMul(a, k)

\* u128::saturating_div
saturating_div(a, d) == BigDiv(a, d)

\* u128::saturating_sub
saturating_sub(a, b) == IF BigLess(a, b) THEN Zero ELSE BigSub(a, b)

\* the outcomes of `x += y` on u128: the sum, or on overflow a panic
\* (overflow checks on) or the wrapped sum (overflow checks off)
AddAssign(x, y) ==
    IF BigLeq(BigAdd(x, y), U128_MAX)
    THEN {[panic |-> FALSE, value |-> BigAdd(x, y)]}
    ELSE {[panic |-> TRUE, value |-> Zero],
          [panic |-> FALSE, value |-> BigSub(BigAdd(x, y), U128_MOD)]}

\* the outcomes of `x -= y` on u128
SubAssign(x, y) ==
    IF BigLeq(y, x)
    THEN {[panic |-> FALSE, value |-> BigSub(x, y)]}
    ELSE {[panic |-> TRUE, value |-> Zero],
          [panic |-> FALSE, value |-> BigSub(BigAdd(x, U128_MOD), y)]}

----------------------------------------------------------------------------
(* Identifiers, composite keys, bounded inputs                             *)

\* account and token identifiers are strings, modelled as sequences of
\* characters so that format!("{}{}{}", ..) is real concatenation
Alice == <<"a">>
Bob == <<"b">>
Market == <<"m">>
Nft1 == <<"n">>
Nft2 == <<"n", ".", "x">>
Tok1 == <<"t">>
Tok2 == <<"x", ".", "t">>

DELIMETER == <<".">>

\* format!("{}{}{}", _nft_address, DELIMETER, _token_id)
ContractAndTokenId(nft, token) == nft \o DELIMETER \o token

\* the accounts that sign calls
Signers == {Alice, Bob}
\* the (nft contract, token id) pairs calls are addressed to: token "x.t" of
\* contract "n" and token "t" of contract "n.x"
Pairs == {<<Nft1, Tok2>>, <<Nft2, Tok1>>}
NftContracts == {p[1] : p \in Pairs}
Keys == {ContractAndTokenId(p[1], p[2]) : p \in Pairs}

\* the block timestamp runs over 0..MaxTime
MaxTime == 2
\* at most MaxPurchases purchases are made in one behaviour
MaxPurchases == 2
\* a storage balance is topped up only while it stays within MaxQuotas quotas
MaxQuotas == 2

\* STORAGE_PER_SALE = 1000 * STORAGE_PRICE_PER_BYTE = 10^22 yoctoNEAR
STORAGE_PER_SALE == <<0, 0, 0, 0, 0, 100>>
\* MIN_REQUIRED_APPROVAL_YOCTO = 1.7 * 10^20, a deposit below the minimum
MIN_REQUIRED_APPROVAL_YOCTO == <<0, 0, 0, 0, 7000, 1>>

\* attached deposits offered to storage_deposit
StorageDeposits == {MIN_REQUIRED_APPROVAL_YOCTO, STORAGE_PER_SALE}
\* prices offered to set_price and bid, deposits attached to purchase_nft
Prices == {Zero, Amt(150)}
\* the terms offered to create_listing
Terms == {[starting_price |-> Amt(150), started_at |-> 1, end_at |-> MaxTime + 1,
           is_auction |-> FALSE],
          [starting_price |-> Amt(150), started_at |-> 0, end_at |-> 2,
           is_auction |-> TRUE],
          [starting_price |-> Amt(150), started_at |-> 1, end_at |-> MaxTime + 1,
           is_auction |-> TRUE]}
\* the owner_cut values the contract is constructed with
OwnerCuts == {1000}

None == << >>
Some(a) == <<a>>

\* LookupMap / UnorderedMap as partial functions
Has(m, k) == k \in DOMAIN m
Insert(m, k, v) == [x \in DOMAIN m \cup {k} |-> IF x = k THEN v ELSE m[x]]
Remove(m, k) == [x \in DOMAIN m \ {k} |-> m[x]]
EmptyMap == [x \in {} |-> 0]

----------------------------------------------------------------------------
(* State                                                                   *)

VARIABLES
    owner,               \* Marketplace.owner
    owner_cut,           \* Marketplace.owner_cut
    listings,            \* Marketplace.listings: key -> Listing
    storage_deposits,    \* Marketplace.storage_deposits: account -> balance
    by_owner_id,         \* Marketplace.by_owner_id: account -> set of keys
    by_nft_contract_id,  \* Marketplace.by_nft_contract_id: account -> set of token ids
    now,                 \* env::block_timestamp()
    promises,            \* settlement receipts in flight
    nextId,              \* id of the next settlement receipt
    runs                 \* receipt id -> the transfer results resolve_purchase ran with

vars == <<owner, owner_cut, listings, storage_deposits, by_owner_id,
          by_nft_contract_id, now, promises, nextId, runs>>

contract == <<listings, storage_deposits, by_owner_id, by_nft_contract_id>>

Transfer(to, amount) == [to |-> to, amount |-> amount]

\* Marketplace::new(_owner_cut), signed by the platform owner
Init ==
    /\ owner = Market
    /\ owner_cut \in OwnerCuts
    /\ listings = EmptyMap
    /\ storage_deposits = EmptyMap
    /\ by_owner_id = EmptyMap
    /\ by_nft_contract_id = EmptyMap
    /\ now = 0
    /\ promises = {}
    /\ nextId = 1
    /\ runs = [i \in 1..MaxPurchases |-> << >>]

----------------------------------------------------------------------------
(* Helpers of the contract                                                 *)

\* near_sdk::assert_one_yocto
assert_one_yocto(deposit) == deposit = Amt(1)

\* self.storage_deposits.get(&account_id).unwrap_or(0)
storage_balance_of(account_id) ==
    IF Has(storage_deposits, account_id) THEN storage_deposits[account_id] ELSE Zero

\* self.by_owner_id.get(&owner_id).map(|s| s.len()).unwrap_or_default()
OwnerSalesLen(owner_id) ==
    IF Has(by_owner_id, owner_id) THEN Cardinality(by_owner_id[owner_id]) ELSE 0

is_on_auction(listing) ==
    now > listing.started_at /\ now < listing.end_at

\* the Listing stored for a freshly approved token
PlaceholderListing(nft, token, owner_id, approval_id) ==
    [seller |-> owner_id,
     approval_id |-> approval_id,
     nft_contract_id |-> nft,
     token_id |-> token,
     starting_price |-> Zero,
     started_at |-> 0,
     end_at |-> 0,
     highest_bidder |-> None,
     highest_price |-> Zero,
     is_auction |-> FALSE]

\* an index update that drops the whole entry under k
RemoveFromIndex_entry(index, k, elem) == Remove(index, k)

\* the index maps after removing elem from the set stored under k,
\* dropping the entry when the set becomes empty
RemoveFromIndex(index, k, elem) ==
    IF index[k] \ {elem} = {}
    THEN Remove(index, k)
    ELSE Insert(index, k, index[k] \ {elem})

\* an internal_remove_listing that updates the indices and leaves the listing
\* stored
internal_remove_listing_keeps(nft_contract_id, token_id) ==
    LET contract_and_token_id == ContractAndTokenId(nft_contract_id, token_id)
        listing == listings[contract_and_token_id]
    IN  [panic |-> ~Has(listings, contract_and_token_id),
         listing |-> listing,
         listings |-> listings,
         by_owner_id |-> Remove(by_owner_id, listing.seller),
         by_nft_contract_id |-> Remove(by_nft_contract_id, nft_contract_id)]

\* Marketplace::internal_remove_listing: the tables after the removal and
\* the removed listing, or a panic ("No listing", "No listing by_owner_id",
\* "No listing by nft_contract_id")
internal_remove_listing(nft_contract_id, token_id) ==
    LET contract_and_token_id == ContractAndTokenId(nft_contract_id, token_id)
        panicked == [panic |-> TRUE, listing |-> None, listings |-> listings,
                     by_owner_id |-> by_owner_id,
                     by_nft_contract_id |-> by_nft_contract_id]
    IN  IF ~Has(listings, contract_and_token_id) THEN panicked
        ELSE LET listing == listings[contract_and_token_id] IN
             IF ~Has(by_owner_id, listing.seller) THEN panicked
             ELSE IF ~Has(by_nft_contract_id, nft_contract_id) THEN panicked
             ELSE [panic |-> FALSE,
                   listing |-> listing,
                   listings |-> Remove(listings, contract_and_token_id),
                   by_owner_id |->
                       RemoveFromIndex(by_owner_id, listing.seller,
                                       contract_and_token_id),
                   by_nft_contract_id |->
                       RemoveFromIndex(by_nft_contract_id, nft_contract_id,
                                       token_id)]

\* the checks of purchase_nft before process_purchase
PurchaseChecks(signer, nft, token, deposit) ==
    LET key == ContractAndTokenId(nft, token) IN
    /\ Has(listings, key)
    /\ LET listing == listings[key] IN
       IF listing.is_auction
       THEN /\ is_on_auction(listing)
            /\ BigLess(Zero, listing.highest_price)
            /\ listing.highest_bidder # None
            /\ listing.highest_bidder = Some(signer)
            /\ BigLeq(listing.highest_price, deposit)
       ELSE BigLeq(listing.starting_price, deposit)

\* purchase_nft runs to completion: its checks pass and the removal in
\* process_purchase does not panic
PurchaseSucceeds(signer, nft, token, deposit) ==
    /\ PurchaseChecks(signer, nft, token, deposit)
    /\ ~internal_remove_listing(nft, token).panic

\* checks of bid that accept a price equal to the current highest_price
BidSucceeds_equal(signer, nft, token, price, deposit) ==
    LET key == ContractAndTokenId(nft, token) IN
    /\ assert_one_yocto(deposit)
    /\ Has(listings, key)
    /\ listings[key].is_auction
    /\ is_on_auction(listings[key])
    /\ listings[key].seller # signer
    /\ BigLeq(listings[key].highest_price, price)

\* the checks of bid
BidSucceeds(signer, nft, token, price, deposit) ==
    LET key == ContractAndTokenId(nft, token) IN
    /\ assert_one_yocto(deposit)
    /\ Has(listings, key)
    /\ listings[key].is_auction
    /\ is_on_auction(listings[key])
    /\ listings[key].seller # signer
    /\ BigLess(listings[key].highest_price, price)

\* the platform cut and the seller's share computed by resolve_purchase
OwnerCutOf(price, cut) == saturating_div(saturating_mul(price, cut), 10000)
SellerShareOf(price, cut) == saturating_sub(price, OwnerCutOf(price, cut))

----------------------------------------------------------------------------
(* Operations                                                              *)

\* the approvals the nft contracts report: the token's owner and the
\* approval id the nft contract issued (Alice owns token "x.t" of "n")
Approvals == {[nft |-> Nft1, token |-> Tok2, owner_id |-> Alice, approval_id |-> 1]}
\* the results nft_transfer_payout can finish with
TransferResults == {"succeeded", "failed"}
\* attached deposits offered to the calls that require exactly one yocto
YoctoDeposits == {Zero, Amt(1)}

\* The approval hook (mod nft_callback): the nft contract reports that
\* owner_id approved the marketplace for token_id.  It stores the placeholder
\* listing and enters it in both indices, provided the owner's prepaid
\* storage covers one more listing.
nft_on_approve(nft, token, owner_id, approval_id) ==
    LET key == ContractAndTokenId(nft, token)
        owned == IF Has(by_owner_id, owner_id) THEN by_owner_id[owner_id] ELSE {}
        listed == IF Has(by_nft_contract_id, nft) THEN by_nft_contract_id[nft] ELSE {}
    IN  /\ ~Has(listings, key)
        /\ BigLeq(BigMul(STORAGE_PER_SALE, OwnerSalesLen(owner_id) + 1),
                  storage_balance_of(owner_id))
        /\ listings' = Insert(listings, key,
                              PlaceholderListing(nft, token, owner_id, approval_id))
        /\ by_owner_id' = Insert(by_owner_id, owner_id, owned \cup {key})
        /\ by_nft_contract_id' = Insert(by_nft_contract_id, nft, listed \cup {token})
        /\ UNCHANGED <<owner, owner_cut, storage_deposits, now, promises, nextId, runs>>

\* the account storage_deposit pays for: account_id, or the caller
StorageAccountId(caller, account_id) ==
    IF account_id = None THEN caller ELSE account_id[1]

\* a storage_deposit that records the deposit in place of the sum
storage_deposit_overwrites(caller, account_id, deposit) ==
    IF ~BigLeq(STORAGE_PER_SALE, deposit) THEN {}
    ELSE {Insert(storage_deposits, StorageAccountId(caller, account_id), deposit)}

\* the storage_deposits table after a storage_deposit, one per outcome of
\* `balance += deposit` that does not panic; empty when the call fails
storage_deposit_result(caller, account_id, deposit) ==
    LET storage_account_id == StorageAccountId(caller, account_id)
        balance == storage_balance_of(storage_account_id)
    IN  IF ~BigLeq(STORAGE_PER_SALE, deposit) THEN {}
        ELSE {Insert(storage_deposits, storage_account_id, r.value) :
                 r \in {x \in AddAssign(balance, deposit) : ~x.panic}}

storage_deposit(caller, account_id, deposit) ==
    /\ BigLeq(BigAdd(storage_balance_of(StorageAccountId(caller, account_id)), deposit),
              BigMul(STORAGE_PER_SALE, MaxQuotas))
    /\ storage_deposits' \in storage_deposit_result(caller, account_id, deposit)
    /\ UNCHANGED <<owner, owner_cut, listings, by_owner_id, by_nft_contract_id,
                   now, promises, nextId, runs>>

\* what a storage_withdraw by caller with one yocto attached does, one record
\* per outcome of `amount -= diff` that does not panic: the transfers it
\* schedules (the excess, when positive) and the storage_deposits table it
\* leaves (the storage in use, when positive)
storage_withdraw_result(caller) ==
    LET owner_id == caller
        amount == storage_balance_of(owner_id)
        len == OwnerSalesLen(owner_id)
        diff == BigMul(STORAGE_PER_SALE, len)
    IN  {[sent |-> IF BigLess(Zero, r.value)
                   THEN <<Transfer(owner_id, r.value)>> ELSE << >>,
          storage_deposits |->
                   IF BigLess(Zero, diff)
                   THEN Insert(Remove(storage_deposits, owner_id), owner_id, diff)
                   ELSE Remove(storage_deposits, owner_id)] :
            r \in {x \in SubAssign(amount, diff) : ~x.panic}}

storage_withdraw(caller, deposit) ==
    /\ assert_one_yocto(deposit)
    /\ \E r \in storage_withdraw_result(caller) :
          storage_deposits' = r.storage_deposits
    /\ UNCHANGED <<owner, owner_cut, listings, by_owner_id, by_nft_contract_id,
                   now, promises, nextId, runs>>

\* a create_listing that keeps the stored seller
create_listing_keeps_seller(signer, nft, token, starting_price, end_at, started_at, highest_price, is_auction) ==
    LET contract_and_token_id == ContractAndTokenId(nft, token)
    IN  /\ Has(listings, contract_and_token_id)
        /\ listings' = Insert(listings, contract_and_token_id,
              [listings[contract_and_token_id] EXCEPT
                  !.starting_price = starting_price,
                  !.end_at = end_at,
                  !.started_at = started_at,
                  !.is_auction = is_auction])
        /\ UNCHANGED <<owner, owner_cut, storage_deposits, by_owner_id,
                       by_nft_contract_id, now, promises, nextId, runs>>

create_listing(signer, nft, token, starting_price, end_at, started_at, highest_price, is_auction) ==
    LET seller == signer
        contract_and_token_id == ContractAndTokenId(nft, token)
    IN  /\ Has(listings, contract_and_token_id)
        /\ listings' = Insert(listings, contract_and_token_id,
              [listings[contract_and_token_id] EXCEPT
                  !.seller = seller,
                  !.starting_price = starting_price,
                  !.end_at = end_at,
                  !.started_at = started_at,
                  !.is_auction = is_auction])
        /\ UNCHANGED <<owner, owner_cut, storage_deposits, by_owner_id,
                       by_nft_contract_id, now, promises, nextId, runs>>

\* the listings table a successful bid leaves: bid sets highest_price and
\* highest_bidder in its local copy of the listing and never writes it back
bid_listings(signer, nft, token, price) == listings

bid(signer, nft, token, price, deposit) ==
    /\ BidSucceeds(signer, nft, token, price, deposit)
    /\ listings' = bid_listings(signer, nft, token, price)
    /\ UNCHANGED <<owner, owner_cut, storage_deposits, by_owner_id,
                   by_nft_contract_id, now, promises, nextId, runs>>

\* a cancel_listing that refuses while the auction is on
cancel_listing_closed(signer, nft, token) ==
    LET contract_and_token_id == ContractAndTokenId(nft, token) IN
    /\ Has(listings, contract_and_token_id)
    /\ signer = listings[contract_and_token_id].seller
    /\ ~is_on_auction(listings[contract_and_token_id])
    /\ listings' = Remove(listings, contract_and_token_id)
    /\ UNCHANGED <<owner, owner_cut, storage_deposits, by_owner_id,
                   by_nft_contract_id, now, promises, nextId, runs>>

\* a cancel_listing that removes every listing of the seller
cancel_listing_all(signer, nft, token) ==
    LET contract_and_token_id == ContractAndTokenId(nft, token) IN
    /\ Has(listings, contract_and_token_id)
    /\ signer = listings[contract_and_token_id].seller
    /\ listings' = [K \in {k \in DOMAIN listings : listings[k].seller # signer}
                       |-> listings[K]]
    /\ UNCHANGED <<owner, owner_cut, storage_deposits, by_owner_id,
                   by_nft_contract_id, now, promises, nextId, runs>>

cancel_listing(signer, nft, token) ==
    LET contract_and_token_id == ContractAndTokenId(nft, token) IN
    /\ Has(listings, contract_and_token_id)
    /\ signer = listings[contract_and_token_id].seller
    /\ listings' = Remove(listings, contract_and_token_id)
    /\ UNCHANGED <<owner, owner_cut, storage_deposits, by_owner_id,
                   by_nft_contract_id, now, promises, nextId, runs>>

\* the receipt process_purchase leaves in flight: the nft_transfer_payout
\* call, then the resolve_purchase(seller, price) callback
Receipt(id, seller, price) == [id |-> id, seller |-> seller, price |-> price]

\* a purchase_nft whose removal of the listing stays committed when the
\* index update that follows it panics
purchase_nft_partial(signer, nft, token, deposit) ==
    LET contract_and_token_id == ContractAndTokenId(nft, token)
        removed == internal_remove_listing(nft, token)
    IN  /\ PurchaseChecks(signer, nft, token, deposit)
        /\ nextId <= MaxPurchases
        /\ IF removed.panic
           THEN /\ listings' = Remove(listings, contract_and_token_id)
                /\ UNCHANGED <<by_owner_id, by_nft_contract_id, promises, nextId>>
           ELSE /\ listings' = removed.listings
                /\ by_owner_id' = removed.by_owner_id
                /\ by_nft_contract_id' = removed.by_nft_contract_id
                /\ promises' = promises \cup
                      {Receipt(nextId, listings[contract_and_token_id].seller, deposit)}
                /\ nextId' = nextId + 1
        /\ UNCHANGED <<owner, owner_cut, storage_deposits, now, runs>>

\* purchase_nft and the process_purchase it calls
purchase_nft(signer, nft, token, deposit) ==
    LET contract_and_token_id == ContractAndTokenId(nft, token)
        removed == internal_remove_listing(nft, token)
    IN  /\ PurchaseSucceeds(signer, nft, token, deposit)
        /\ nextId <= MaxPurchases
        /\ listings' = removed.listings
        /\ by_owner_id' = removed.by_owner_id
        /\ by_nft_contract_id' = removed.by_nft_contract_id
        /\ promises' = promises \cup
              {Receipt(nextId, listings[contract_and_token_id].seller, deposit)}
        /\ nextId' = nextId + 1
        /\ UNCHANGED <<owner, owner_cut, storage_deposits, now, runs>>

\* a set_price open to every caller
set_price_anyone(signer, nft, token, price) ==
    LET contract_and_token_id == ContractAndTokenId(nft, token) IN
    /\ Has(listings, contract_and_token_id)
    /\ ~listings[contract_and_token_id].is_auction
    /\ listings' = Insert(listings, contract_and_token_id,
          [listings[contract_and_token_id] EXCEPT !.starting_price = price])
    /\ UNCHANGED <<owner, owner_cut, storage_deposits, by_owner_id,
                   by_nft_contract_id, now, promises, nextId, runs>>

set_price(signer, nft, token, price) ==
    LET contract_and_token_id == ContractAndTokenId(nft, token) IN
    /\ Has(listings, contract_and_token_id)
    /\ ~listings[contract_and_token_id].is_auction
    /\ signer = listings[contract_and_token_id].seller
    /\ listings' = Insert(listings, contract_and_token_id,
          [listings[contract_and_token_id] EXCEPT !.starting_price = price])
    /\ UNCHANGED <<owner, owner_cut, storage_deposits, by_owner_id,
                   by_nft_contract_id, now, promises, nextId, runs>>

\* a resolve_purchase that pays only after a transfer that succeeded
resolve_purchase_sent_checked(seller, price, result) ==
    IF result = "succeeded"
    THEN <<Transfer(seller, SellerShareOf(price, owner_cut)),
           Transfer(owner, OwnerCutOf(price, owner_cut))>>
    ELSE << >>

\* the transfers resolve_purchase(seller, price) schedules when it runs after
\* a transfer that finished with result: the seller's share, then the cut
resolve_purchase_sent(seller, price, result) ==
    <<Transfer(seller, SellerShareOf(price, owner_cut)),
      Transfer(owner, OwnerCutOf(price, owner_cut))>>

\* a callback whose receipt stays in flight after it has run
resolve_purchase_again(r, result) ==
    /\ r \in promises
    /\ Len(runs[r.id]) < 2
    /\ runs' = [runs EXCEPT ![r.id] = Append(@, result)]
    /\ UNCHANGED <<owner, owner_cut, listings, storage_deposits, by_owner_id,
                   by_nft_contract_id, now, promises, nextId>>

\* The callback resolve_purchase(seller, price) of receipt r, run once the
\* nft contract's nft_transfer_payout has finished with the given result.
\* The callback does not read the result.
resolve_purchase(r, result) ==
    /\ r \in promises
    /\ promises' = promises \ {r}
    /\ runs' = [runs EXCEPT ![r.id] = Append(@, result)]
    /\ UNCHANGED <<owner, owner_cut, listings, storage_deposits, by_owner_id,
                   by_nft_contract_id, now, nextId>>

\* the block timestamp advances
Tick ==
    /\ now < MaxTime
    /\ now' = now + 1
    /\ UNCHANGED <<owner, owner_cut, listings, storage_deposits, by_owner_id,
                   by_nft_contract_id, promises, nextId, runs>>

Next ==
    \/ \E a \in Approvals :
          nft_on_approve(a.nft, a.token, a.owner_id, a.approval_id)
    \/ \E c \in Signers, t \in {None} \cup {Some(a) : a \in Signers},
          d \in StorageDeposits : storage_deposit(c, t, d)
    \/ \E c \in Signers, d \in YoctoDeposits : storage_withdraw(c, d)
    \/ \E c \in Signers, p \in Pairs, t \in Terms :
          create_listing(c, p[1], p[2], t.starting_price, t.end_at, t.started_at,
                         Zero, t.is_auction)
    \/ \E c \in Signers, p \in Pairs, pr \in Prices, d \in YoctoDeposits :
          bid(c, p[1], p[2], pr, d)
    \/ \E c \in Signers, p \in Pairs : cancel_listing(c, p[1], p[2])
    \/ \E c \in Signers, p \in Pairs, d \in Prices : purchase_nft(c, p[1], p[2], d)
    \/ \E c \in Signers, p \in Pairs, pr \in Prices : set_price(c, p[1], p[2], pr)
    \/ \E r \in promises, result \in TransferResults : resolve_purchase(r, result)
    \/ Tick

Spec == Init /\ [][Next]_vars

\* NEAR executes every receipt it has scheduled: a callback in flight is
\* eventually run
FairSpec ==
    Spec /\ WF_vars(\E r \in promises, result \in TransferResults :
                        resolve_purchase(r, result))

\* the settled prices drawn for the receipt in flight of InitStored
SettledPrices == {Amt(150), U128_MAX}

\* an auction listing with a recorded bid, stored as the unit tests store
\* their listings: written into the tables directly
StoredAuction ==
    [seller |-> Alice,
     approval_id |-> 1,
     nft_contract_id |-> Nft1,
     token_id |-> Tok2,
     starting_price |-> Amt(100),
     started_at |-> 0,
     end_at |-> 2,
     highest_bidder |-> Some(Bob),
     highest_price |-> Amt(150),
     is_auction |-> TRUE]

\* a contract holding StoredAuction, its index entries and its storage, with
\* one settlement receipt (id 0) in flight for a drawn price
InitStored ==
    /\ owner = Market
    /\ owner_cut \in OwnerCuts
    /\ listings = Insert(EmptyMap, ContractAndTokenId(Nft1, Tok2), StoredAuction)
    /\ storage_deposits = Insert(EmptyMap, Alice, STORAGE_PER_SALE)
    /\ by_owner_id = Insert(EmptyMap, Alice, {ContractAndTokenId(Nft1, Tok2)})
    /\ by_nft_contract_id = Insert(EmptyMap, Nft1, {Tok2})
    /\ now = 0
    /\ \E price \in SettledPrices : promises = {Receipt(0, Alice, price)}
    /\ nextId = 1
    /\ runs = [i \in 0..MaxPurchases |-> << >>]

SpecStored == InitStored /\ [][Next]_vars

\* A second specification, over two tokens of one nft contract that both
\* belong to Alice, so that a seller holds several listings and an index set
\* several elements.
PairsTwo == {<<Nft1, Tok1>>, <<Nft1, Tok2>>}
ApprovalsTwo == {[nft |-> Nft1, token |-> Tok1, owner_id |-> Alice, approval_id |-> 1],
                 [nft |-> Nft1, token |-> Tok2, owner_id |-> Alice, approval_id |-> 2]}
TermsTwo == {[starting_price |-> Amt(150), started_at |-> 1, end_at |-> MaxTime + 1,
              is_auction |-> FALSE],
             [starting_price |-> Amt(150), started_at |-> 0, end_at |-> 2,
              is_auction |-> TRUE]}
PricesTwo == {Amt(150)}

NextTwo ==
    \/ \E a \in ApprovalsTwo :
          nft_on_approve(a.nft, a.token, a.owner_id, a.approval_id)
    \/ \E c \in Signers, t \in {None} \cup {Some(a) : a \in Signers},
          d \in StorageDeposits : storage_deposit(c, t, d)
    \/ \E c \in Signers, d \in YoctoDeposits : storage_withdraw(c, d)
    \/ \E c \in Signers, p \in PairsTwo, t \in TermsTwo :
          create_listing(c, p[1], p[2], t.starting_price, t.end_at, t.started_at,
                         Zero, t.is_auction)
    \/ \E c \in Signers, p \in PairsTwo, pr \in PricesTwo, d \in YoctoDeposits :
          bid(c, p[1], p[2], pr, d)
    \/ \E c \in Signers, p \in PairsTwo : cancel_listing(c, p[1], p[2])
    \/ \E c \in Signers, p \in PairsTwo, d \in PricesTwo : purchase_nft(c, p[1], p[2], d)
    \/ \E c \in Signers, p \in PairsTwo, pr \in PricesTwo : set_price(c, p[1], p[2], pr)
    \/ \E r \in promises, result \in TransferResults : resolve_purchase(r, result)
    \/ Tick

SpecTwo == Init /\ [][NextTwo]_vars

\* The same two tokens with every storage deposit made for Alice, the owner
\* both approvals name.
NextFrame ==
    \/ \E a \in ApprovalsTwo :
          nft_on_approve(a.nft, a.token, a.owner_id, a.approval_id)
    \/ \E c \in Signers, d \in StorageDeposits : storage_deposit(c, Some(Alice), d)
    \/ \E c \in Signers, d \in YoctoDeposits : storage_withdraw(c, d)
    \/ \E c \in Signers, p \in PairsTwo, t \in TermsTwo :
          create_listing(c, p[1], p[2], t.starting_price, t.end_at, t.started_at,
                         Zero, t.is_auction)
    \/ \E c \in Signers, p \in PairsTwo, pr \in PricesTwo, d \in YoctoDeposits :
          bid(c, p[1], p[2], pr, d)
    \/ \E c \in Signers, p \in PairsTwo : cancel_listing(c, p[1], p[2])
    \/ \E c \in Signers, p \in PairsTwo, d \in PricesTwo : purchase_nft(c, p[1], p[2], d)
    \/ \E c \in Signers, p \in PairsTwo, pr \in PricesTwo : set_price(c, p[1], p[2], pr)
    \/ \E r \in promises, result \in TransferResults : resolve_purchase(r, result)
    \/ Tick

SpecFrame == Init /\ [][NextFrame]_vars

\* A third specification, over the values new(_owner_cut: u16) accepts: the
\* constructor stores its argument unchecked, so the contract can be
\* initialised with no cut, the whole price, and values above 10000 up to
\* u16::MAX.
AllOwnerCuts == {0, 1000, 10000, 10001, 65535}

InitCuts ==
    /\ owner = Market
    /\ owner_cut \in AllOwnerCuts
    /\ listings = EmptyMap
    /\ storage_deposits = EmptyMap
    /\ by_owner_id = EmptyMap
    /\ by_nft_contract_id = EmptyMap
    /\ now = 0
    /\ promises = {}
    /\ nextId = 1
    /\ runs = [i \in 1..MaxPurchases |-> << >>]

SpecCuts == InitCuts /\ [][Next]_vars

----------------------------------------------------------------------------
(* Properties                                                              *)

TokenIds == {p[2] : p \in Pairs}
Targets == {None} \cup {Some(a) : a \in Signers}

\* the keys of the open listings whose seller is account
ListingsOf(account) ==
    {K \in DOMAIN listings : listings[K].seller = account}

\* a listing for (nft, token) exists
ListingFor(nft, token) ==
    \E K \in DOMAIN listings :
        listings[K].nft_contract_id = nft /\ listings[K].token_id = token

\* C1: in every reachable state, K is in by_owner_id[S] iff listings[K]
\* exists with seller S, and T is in by_nft_contract_id[R] iff a listing for
\* (R, T) exists.
IndexesMatchListings ==
    /\ \A S \in Signers, K \in Keys :
          (Has(by_owner_id, S) /\ K \in by_owner_id[S])
             <=> (Has(listings, K) /\ listings[K].seller = S)
    /\ \A R \in NftContracts, T \in TokenIds :
          (Has(by_nft_contract_id, R) /\ T \in by_nft_contract_id[R])
             <=> ListingFor(R, T)

\* C2: whenever bid(registry, asset, price) by a caller succeeds, the listing
\* it leaves stored has highest_price = price and highest_bidder = the caller.
BidIsStored ==
    \A c \in Signers, p \in Pairs, pr \in Prices :
        BidSucceeds(c, p[1], p[2], pr, Amt(1)) =>
            LET stored == bid_listings(c, p[1], p[2], pr)[ContractAndTokenId(p[1], p[2])]
            IN  stored.highest_price = pr /\ stored.highest_bidder = Some(c)

NoDoublePurchase ==
    [][/\ \A c \in Signers, p \in Pairs, d \in Prices :
             purchase_nft(c, p[1], p[2], d) =>
                 /\ Has(listings, ContractAndTokenId(p[1], p[2]))
                 /\ ~Has(listings', ContractAndTokenId(p[1], p[2]))
       /\ \A c \in Signers, p \in Pairs, d \in Prices :
             ~Has(listings, ContractAndTokenId(p[1], p[2])) =>
                 ~PurchaseSucceeds(c, p[1], p[2], d)
       /\ \A K \in Keys :
             (~Has(listings, K) /\ Has(listings', K)) =>
                 \E a \in Approvals :
                     nft_on_approve(a.nft, a.token, a.owner_id, a.approval_id)
       /\ \A r \in promises, result \in TransferResults :
             resolve_purchase(r, result) => listings' = listings]_vars

\* C4 witness: a purchase was made, its transfer failed, its settlement ran,
\* and the purchased key is not listed
PurchasedAndGone ==
    /\ nextId > 1
    /\ runs[1] = <<"failed">>
    /\ \A K \in Keys : ~Has(listings, K)

\* C5: for every price and every owner_cut in 0..10000, resolve_purchase pays
\* the owner floor(price * owner_cut / 10000) and the seller the price minus
\* that amount.
CutIsExactFloor ==
    \A r \in promises, result \in TransferResults :
        owner_cut <= 10000 =>
            LET cut == BigDiv(BigMul(r.price, owner_cut), 10000)
            IN  resolve_purchase_sent(r.seller, r.price, result)
                   = <<Transfer(r.seller, BigSub(r.price, cut)),
                       Transfer(owner, cut)>>

SettlesExactlyOnce ==
    /\ [][\A c \in Signers, p \in Pairs, d \in Prices :
             purchase_nft(c, p[1], p[2], d) =>
                 LET bound == [id |-> nextId,
                               seller |-> listings[ContractAndTokenId(p[1], p[2])].seller,
                               price |-> d]
                 IN  bound \notin promises /\ promises' = promises \cup {bound}]_vars
    /\ [][\A r \in promises :
             r \notin promises' => runs' = [runs EXCEPT ![r.id] = Append(@, "succeeded")]
                                   \/ runs' = [runs EXCEPT ![r.id] = Append(@, "failed")]]_vars
    /\ [](\A i \in DOMAIN runs :
             /\ Len(runs[i]) <= 1
             /\ runs[i] # << >> => i < nextId
             /\ \A r \in promises : r.id = i => i < nextId /\ runs[i] = << >>)
    /\ \A i \in 1..MaxPurchases : (nextId > i) ~> (Len(runs[i]) = 1)

\* C7 witness: the callback of a purchase has run, once
CallbackHasRun ==
    nextId > 1 /\ Len(runs[1]) = 1 /\ promises = {}

\* C8: in every reachable state every account's storage balance is at least
\* STORAGE_PER_SALE times the number of open listings whose seller it is.
StorageSolvent ==
    \A S \in Signers :
        BigLeq(BigMul(STORAGE_PER_SALE, Cardinality(ListingsOf(S))),
               storage_balance_of(S))

\* C9: when the caller is the seller of N open listings and has balance
\* B >= N * STORAGE_PER_SALE, storage_withdraw succeeds, transfers exactly
\* B - N * STORAGE_PER_SALE to the caller (nothing when that is 0), leaves
\* N * STORAGE_PER_SALE as the caller's balance and no other balance changed.
WithdrawReleasesExcess ==
    \A c \in Signers :
        LET reserved == BigMul(STORAGE_PER_SALE, Cardinality(ListingsOf(c)))
            B == storage_balance_of(c)
        IN  BigLeq(reserved, B) =>
               /\ storage_withdraw_result(c) # {}
               /\ \A r \in storage_withdraw_result(c) :
                     /\ r.sent = IF B = reserved THEN << >>
                                 ELSE <<Transfer(c, BigSub(B, reserved))>>
                     /\ (IF Has(r.storage_deposits, c)
                         THEN r.storage_deposits[c] ELSE Zero) = reserved
                     /\ \A a \in Signers \ {c} :
                           /\ Has(r.storage_deposits, a) <=> Has(storage_deposits, a)
                           /\ Has(storage_deposits, a) =>
                                 r.storage_deposits[a] = storage_deposits[a]

\* C10: storage_deposit fails when the amount is below STORAGE_PER_SALE;
\* otherwise it succeeds, the balance of the target account (the caller when
\* no target is given) grows by exactly the amount, and every other balance
\* stays as it is.
DepositAddsAmount ==
    \A c \in Signers, t \in Targets, d \in StorageDeposits :
        LET target == IF t = None THEN c ELSE t[1]
            after == storage_deposit_result(c, t, d)
        IN  IF BigLess(d, STORAGE_PER_SALE) THEN after = {}
            ELSE /\ after # {}
                 /\ \A m \in after :
                       /\ Has(m, target)
                       /\ m[target] = BigAdd(storage_balance_of(target), d)
                       /\ \A a \in Signers \ {target} :
                             /\ Has(m, a) <=> Has(storage_deposits, a)
                             /\ Has(storage_deposits, a) => m[a] = storage_deposits[a]

\* C10 witness: two deposits to one account have added up, and the other
\* account has none
DepositsAddedUp ==
    /\ storage_balance_of(Alice) = BigMul(STORAGE_PER_SALE, 2)
    /\ ~Has(storage_deposits, Bob)

\* C11: bid is rejected whenever the listing does not exist, is not in
\* auction mode, the caller is its seller, the price does not exceed the
\* stored highest_price, or now is outside [started_at, end_at); a rejected
\* call changes nothing.
BidRejections ==
    \A c \in Signers, p \in Pairs, pr \in Prices, d \in YoctoDeposits :
        LET key == ContractAndTokenId(p[1], p[2])
            rejected == \/ ~Has(listings, key)
                        \/ ~listings[key].is_auction
                        \/ listings[key].seller = c
                        \/ BigLeq(pr, listings[key].highest_price)
                        \/ now < listings[key].started_at
                        \/ now >= listings[key].end_at
        IN  rejected => /\ ~BidSucceeds(c, p[1], p[2], pr, d)
                        /\ ~ENABLED bid(c, p[1], p[2], pr, d)

\* C11 witness: an auction whose window has closed (now = end_at) is stored,
\* and a non-seller offers a price above its highest_price
BidAfterClose ==
    \E K \in DOMAIN listings :
        /\ listings[K].is_auction
        /\ now = listings[K].end_at
        /\ listings[K].seller = Alice
        /\ BigLess(listings[K].highest_price, Amt(150))

\* C12: when a seller with N open listings and balance B >= N * quota cancels
\* one of them, a storage_withdraw by that seller right after reserves
\* (N - 1) * quota and transfers B - (N - 1) * quota.
CancelFreesStorage ==
    [][\A c \in Signers, p \in Pairs :
          LET N == Cardinality(ListingsOf(c))
              B == storage_balance_of(c)
              reserved == BigMul(STORAGE_PER_SALE, N - 1)
          IN  (cancel_listing(c, p[1], p[2]) /\ BigLeq(BigMul(STORAGE_PER_SALE, N), B))
              => \A r \in storage_withdraw_result(c)' :
                    /\ r.sent = <<Transfer(c, BigSub(B, reserved))>>
                    /\ (IF Has(r.storage_deposits, c)
                        THEN r.storage_deposits[c] ELSE Zero) = reserved]_vars

\* C13: cancel_listing succeeds exactly when the key holds a listing whose
\* seller is the caller, whatever the listing's mode, window and recorded
\* bid; when it succeeds it removes that listing and nothing else from the
\* listing table; otherwise it fails and the table is unchanged.
CancelOwnerOnly ==
    /\ [](\A c \in Signers, p \in Pairs :
             ENABLED cancel_listing(c, p[1], p[2])
                <=> /\ Has(listings, ContractAndTokenId(p[1], p[2]))
                    /\ listings[ContractAndTokenId(p[1], p[2])].seller = c)
    /\ [][\A c \in Signers, p \in Pairs :
             cancel_listing(c, p[1], p[2]) =>
                 listings' = Remove(listings, ContractAndTokenId(p[1], p[2]))]_vars

\* C13 witness: a listing was cancelled (it is gone, no purchase was made and
\* its index entry is left behind) after the clock had advanced
CancelledListing ==
    /\ listings = EmptyMap
    /\ nextId = 1
    /\ Has(by_owner_id, Alice)
    /\ now = 1

\* C16: set_price succeeds exactly when the listing exists, is fixed-price and
\* the caller is its seller; on success starting_price becomes the given price
\* and every other field of the listing, and every other listing, is
\* unchanged; otherwise the call fails and the listing is unchanged.
SetPriceOwnerFixedOnly ==
    /\ [](\A c \in Signers, p \in Pairs, pr \in Prices :
             ENABLED set_price(c, p[1], p[2], pr)
                <=> /\ Has(listings, ContractAndTokenId(p[1], p[2]))
                    /\ ~listings[ContractAndTokenId(p[1], p[2])].is_auction
                    /\ listings[ContractAndTokenId(p[1], p[2])].seller = c)
    /\ [][\A c \in Signers, p \in Pairs, pr \in Prices :
             set_price(c, p[1], p[2], pr) =>
                 LET K == ContractAndTokenId(p[1], p[2]) IN
                 /\ DOMAIN listings' = DOMAIN listings
                 /\ listings'[K] = [listings[K] EXCEPT !.starting_price = pr]
                 /\ \A J \in DOMAIN listings \ {K} : listings'[J] = listings[J]]_vars

\* C16 witness: a fixed-price listing created at 150 has been repriced to 0
\* by its seller
Repriced ==
    \E K \in DOMAIN listings :
        /\ ~listings[K].is_auction
        /\ listings[K].end_at = MaxTime + 1
        /\ listings[K].starting_price = Zero
        /\ listings[K].seller = Bob

\* C17: create_listing succeeds exactly when a listing is stored at the
\* composite key; it then sets seller, starting_price, started_at, end_at and
\* is_auction to the call's values and leaves approval_id, nft_contract_id,
\* token_id, highest_price and highest_bidder as they were; otherwise it
\* fails and nothing changes.
CreateListingOverwritesTerms ==
    /\ [](\A c \in Signers, p \in Pairs, t \in Terms :
             ENABLED create_listing(c, p[1], p[2], t.starting_price, t.end_at,
                                    t.started_at, Zero, t.is_auction)
                <=> Has(listings, ContractAndTokenId(p[1], p[2])))
    /\ [][\A c \in Signers, p \in Pairs, t \in Terms :
             create_listing(c, p[1], p[2], t.starting_price, t.end_at,
                            t.started_at, Zero, t.is_auction) =>
                 LET K == ContractAndTokenId(p[1], p[2]) IN
                 /\ DOMAIN listings' = DOMAIN listings
                 /\ listings'[K] = [seller |-> c,
                                    starting_price |-> t.starting_price,
                                    started_at |-> t.started_at,
                                    end_at |-> t.end_at,
                                    is_auction |-> t.is_auction,
                                    approval_id |-> listings[K].approval_id,
                                    nft_contract_id |-> listings[K].nft_contract_id,
                                    token_id |-> listings[K].token_id,
                                    highest_price |-> listings[K].highest_price,
                                    highest_bidder |-> listings[K].highest_bidder]
                 /\ UNCHANGED <<storage_deposits, by_owner_id, by_nft_contract_id>>]_vars

\* C17 witness: the placeholder approved by Alice carries terms given by Bob
\* and the approval's identifiers
TermsWritten ==
    \E K \in DOMAIN listings :
        /\ listings[K].seller = Bob
        /\ listings[K].is_auction
        /\ listings[K].starting_price = Amt(150)
        /\ listings[K].approval_id = 1
        /\ listings[K].nft_contract_id = Nft1
        /\ listings[K].token_id = Tok2

\* C14: for every stored fixed-price listing, purchase_nft addressed to its
\* (nft contract, token) succeeds for every caller, at any time, exactly when
\* the attached deposit is at least starting_price.
FixedPricePurchase ==
    \A K \in DOMAIN listings, c \in Signers, d \in Prices :
        ~listings[K].is_auction =>
            (PurchaseSucceeds(c, listings[K].nft_contract_id, listings[K].token_id, d)
                <=> BigLeq(listings[K].starting_price, d))

\* C18: a call that fails at any of its checks, a check reached after an
\* earlier mutation in the same call included (a missing index entry during
\* the removal of the listing, an underflow in storage_withdraw), takes no
\* step, and so leaves the tables as before the call.
AllOrNothing ==
    \A c \in Signers :
        /\ \A t \in Targets, d \in StorageDeposits :
              BigLess(d, STORAGE_PER_SALE) => storage_deposit_result(c, t, d) = {}
        /\ \A d \in YoctoDeposits :
              ~assert_one_yocto(d) => ~ENABLED storage_withdraw(c, d)
        /\ (\A r \in SubAssign(storage_balance_of(c),
                               BigMul(STORAGE_PER_SALE, OwnerSalesLen(c))) : r.panic)
              => storage_withdraw_result(c) = {}
        /\ \A p \in Pairs :
              LET K == ContractAndTokenId(p[1], p[2]) IN
              /\ ~Has(listings, K) =>
                    \A t \in Terms :
                       ~ENABLED create_listing(c, p[1], p[2], t.starting_price,
                                               t.end_at, t.started_at, Zero, t.is_auction)
              /\ \A pr \in Prices, d \in YoctoDeposits :
                    ~BidSucceeds(c, p[1], p[2], pr, d) => ~ENABLED bid(c, p[1], p[2], pr, d)
              /\ (~Has(listings, K) \/ listings[K].seller # c)
                    => ~ENABLED cancel_listing(c, p[1], p[2])
              /\ (~Has(listings, K) \/ listings[K].is_auction \/ listings[K].seller # c)
                    => \A pr \in Prices : ~ENABLED set_price(c, p[1], p[2], pr)
              /\ \A d \in Prices :
                    (~PurchaseChecks(c, p[1], p[2], d)
                        \/ internal_remove_listing(p[1], p[2]).panic)
                       => ~ENABLED purchase_nft(c, p[1], p[2], d)

\* C18 witness: a purchase_nft addressed to a stored listing would pass its
\* own checks and then panic in internal_remove_listing, after the listing
\* has been removed, for want of the seller's index entry
PanicAfterRemoval ==
    /\ nextId <= MaxPurchases
    /\ \E c \in Signers, d \in Prices :
          /\ PurchaseChecks(c, Nft1, Tok2, d)
          /\ internal_remove_listing(Nft1, Tok2).panic

\* C19: an operation addressed to one (nft contract, token) pair reads or
\* overwrites only the listing of that pair: whenever create_listing,
\* set_price or cancel_listing addressed to a pair succeeds, the listing
\* stored at its key is a listing of that pair.
KeyIsInjective ==
    [][\A c \in Signers, p \in Pairs :
          (\/ cancel_listing(c, p[1], p[2])
           \/ \E pr \in Prices : set_price(c, p[1], p[2], pr)
           \/ \E t \in Terms : create_listing(c, p[1], p[2], t.starting_price, t.end_at,
                                              t.started_at, Zero, t.is_auction))
          => /\ listings[ContractAndTokenId(p[1], p[2])].nft_contract_id = p[1]
             /\ listings[ContractAndTokenId(p[1], p[2])].token_id = p[2]]_vars

\* C20: a bid by a non-seller with one yocto attached and a price above
\* highest_price is accepted whenever started_at <= now < end_at, and
\* rejected at now = end_at.
WindowIsHalfOpen ==
    \A c \in Signers, p \in Pairs, pr \in Prices :
        LET K == ContractAndTokenId(p[1], p[2]) IN
        (/\ Has(listings, K)
         /\ listings[K].is_auction
         /\ listings[K].seller # c
         /\ BigLess(listings[K].highest_price, pr))
        => /\ (listings[K].started_at <= now /\ now < listings[K].end_at)
                 => BidSucceeds(c, p[1], p[2], pr, Amt(1))
           /\ now = listings[K].end_at => ~BidSucceeds(c, p[1], p[2], pr, Amt(1))

\* the set an index holds under k, empty when it has no entry
IndexSet(index, k) == IF Has(index, k) THEN index[k] ELSE {}

\* C15: a purchase_nft of (R, T) with seller S that succeeds removes the
\* listing, removes exactly its key from by_owner_id[S] and exactly T from
\* by_nft_contract_id[R], leaves every other key and entry in place and drops
\* an entry whose set has become empty; no index ever holds an empty set.
PurchaseCleansIndices ==
    /\ [](/\ \A S \in DOMAIN by_owner_id : by_owner_id[S] # {}
          /\ \A R \in DOMAIN by_nft_contract_id : by_nft_contract_id[R] # {})
    /\ [][\A c \in Signers, p \in PairsTwo, d \in PricesTwo :
             purchase_nft(c, p[1], p[2], d) =>
                LET K == ContractAndTokenId(p[1], p[2])
                    S == listings[K].seller
                IN  /\ listings' = Remove(listings, K)
                    /\ IndexSet(by_owner_id', S) = IndexSet(by_owner_id, S) \ {K}
                    /\ IndexSet(by_nft_contract_id', p[1])
                          = IndexSet(by_nft_contract_id, p[1]) \ {p[2]}
                    /\ \A A \in Signers \ {S} :
                          /\ Has(by_owner_id', A) <=> Has(by_owner_id, A)
                          /\ IndexSet(by_owner_id', A) = IndexSet(by_owner_id, A)
                    /\ DOMAIN by_owner_id' \subseteq DOMAIN by_owner_id
                    /\ DOMAIN by_nft_contract_id' \subseteq DOMAIN by_nft_contract_id
                    /\ Has(by_owner_id', S) <=> IndexSet(by_owner_id, S) \ {K} # {}
                    /\ Has(by_nft_contract_id', p[1])
                          <=> IndexSet(by_nft_contract_id, p[1]) \ {p[2]} # {}]_vars

\* C15 witness: one of Alice's listings was purchased and settled, and the
\* other is still stored and still in both indices
OneOfTwoPurchased ==
    /\ nextId > 1
    /\ runs[1] # << >>
    /\ Cardinality(DOMAIN listings) = 1
    /\ IndexSet(by_owner_id, Alice) = DOMAIN listings
    /\ Cardinality(IndexSet(by_nft_contract_id, Nft1)) = 1
    /\ storage_balance_of(Alice) = BigMul(STORAGE_PER_SALE, 2)

\* C21: the clock never goes back, and an auction listing that is Closed
\* (now >= end_at) is never Open (started_at <= now < end_at) again: for as
\* long as the listing is stored, no step makes it Open and no bid on it is
\* accepted afterwards.
ClosedNeverReopens ==
    [][/\ now' >= now
       /\ \A p \in Pairs :
             LET K == ContractAndTokenId(p[1], p[2]) IN
             (/\ Has(listings, K)
              /\ listings[K].is_auction
              /\ now >= listings[K].end_at
              /\ Has(listings', K))
             => /\ ~(/\ listings'[K].is_auction
                     /\ listings'[K].started_at <= now'
                     /\ now' < listings'[K].end_at)
                /\ \A c \in Signers, pr \in Prices :
                      ~(BidSucceeds(c, p[1], p[2], pr, Amt(1)))']_vars

\* C22: a call signed by an account other than the seller recorded in a
\* listing (create_listing or set_price on the stored listing) leaves the
\* listing's seller, starting_price, started_at, end_at and is_auction as
\* they were, and every settlement receipt pays the account the token was
\* approved by.
OnlySellerChangesTerms ==
    /\ [][\A c \in Signers, p \in Pairs :
             LET K == ContractAndTokenId(p[1], p[2]) IN
             (/\ \/ \E t \in Terms :
                       create_listing(c, p[1], p[2], t.starting_price, t.end_at,
                                      t.started_at, Zero, t.is_auction)
                 \/ \E pr \in Prices : set_price(c, p[1], p[2], pr)
              /\ c # listings[K].seller)
             => /\ listings'[K].seller = listings[K].seller
                /\ listings'[K].starting_price = listings[K].starting_price
                /\ listings'[K].started_at = listings[K].started_at
                /\ listings'[K].end_at = listings[K].end_at
                /\ listings'[K].is_auction = listings[K].is_auction]_vars
    /\ [](\A r \in promises : \E a \in Approvals : r.seller = a.owner_id)

\* C23: for every settlement receipt in flight and every owner_cut the
\* contract was initialised with, the amount resolve_purchase pays to the
\* seller plus the amount it pays to the platform owner equals the price
\* bound at purchase time.
PayoutConserved ==
    \A r \in promises, result \in TransferResults :
        LET sent == resolve_purchase_sent(r.seller, r.price, result)
        IN  BigAdd(sent[1].amount, sent[2].amount) = r.price

\* C24: create_listing, set_price, bid, cancel_listing and purchase_nft
\* addressed to key K leave every listing stored under another key as it
\* was, store no listing under another key and leave storage_deposits as it
\* was (in every reachable state, no such call has an outcome that changes
\* them); storage_deposit and storage_withdraw leave listings, by_owner_id
\* and by_nft_contract_id as they were (a step that changes one of them is
\* not a step of either).
FrameCondition ==
    /\ [](\A c \in Signers, p \in PairsTwo :
             LET K == ContractAndTokenId(p[1], p[2]) IN
             ~ENABLED
                (/\ \/ \E t \in TermsTwo :
                          create_listing(c, p[1], p[2], t.starting_price, t.end_at,
                                         t.started_at, Zero, t.is_auction)
                    \/ \E pr \in PricesTwo : set_price(c, p[1], p[2], pr)
                    \/ \E pr \in PricesTwo, d \in YoctoDeposits :
                          bid(c, p[1], p[2], pr, d)
                    \/ cancel_listing(c, p[1], p[2])
                    \/ \E d \in PricesTwo : purchase_nft(c, p[1], p[2], d)
                 /\ \/ storage_deposits' # storage_deposits
                    \/ \E K2 \in (DOMAIN listings \cup DOMAIN listings') \ {K} :
                          \/ ~Has(listings, K2)
                          \/ ~Has(listings', K2)
                          \/ listings'[K2] # listings[K2]))
    /\ [][(\/ listings' # listings
           \/ by_owner_id' # by_owner_id
           \/ by_nft_contract_id' # by_nft_contract_id)
          => /\ \A c \in Signers, d \in StorageDeposits :
                   ~storage_deposit(c, Some(Alice), d)
             /\ \A c \in Signers, d \in YoctoDeposits : ~storage_withdraw(c, d)]_vars

\* C24 witness: Alice's two listings are stored with different terms, written
\* by two create_listing calls, and her storage balance still covers both
TwoListingsTwoTerms ==
    /\ Has(listings, ContractAndTokenId(Nft1, Tok1))
    /\ Has(listings, ContractAndTokenId(Nft1, Tok2))
    /\ listings[ContractAndTokenId(Nft1, Tok1)].is_auction
    /\ listings[ContractAndTokenId(Nft1, Tok1)].end_at = 2
    /\ ~listings[ContractAndTokenId(Nft1, Tok2)].is_auction
    /\ listings[ContractAndTokenId(Nft1, Tok2)].starting_price = Amt(150)
    /\ listings[ContractAndTokenId(Nft1, Tok2)].seller = Bob
    /\ storage_balance_of(Alice) = BigMul(STORAGE_PER_SALE, 2)

====
